---- MODULE Spec2Model ----
(***************************************************************************)
(* Model of analyze-osint-scraper (src/main.py): main() reads the keyword  *)
(* and IOC lists, calls scrape_url() for every target URL, which fetches   *)
(* up to max_pages pages and matches keywords and IOCs against each page's *)
(* text, and finally hands all records to save_results_to_csv().           *)
(*                                                                         *)
(* A string is a sequence of one-character strings; a URL is a sequence of *)
(* tokens ("h" a host, "?", "&", "i" a query item, "page=", a digit).      *)
(* Python's None is the empty tuple and a present value x is <<x>>.        *)
(***************************************************************************)
EXTENDS Integers, Sequences, FiniteSets, TLC

VARIABLES
    pc,           \* position of main(): "main", "for_url", "for_page", "except", "done"
    args,         \* the parsed command line (argparse namespace)
    ioc_fs,       \* what the file system holds at args.ioc_file
    keywords,     \* main: keywords
    iocs,         \* main: iocs
    all_results,  \* main: all_results
    url_idx,      \* main: position of the for loop over args.urls
    page_num,     \* scrape_url: page_num
    results,      \* scrape_url: results
    out_file,     \* the output file: None, or <<lines>> once written
    log,          \* history: every fetch attempt of the run, in order
    origin,       \* history: for each record of results, the page it came from
    all_origin,   \* history: the same for all_results
    save_calls    \* history: number of calls of save_results_to_csv

vars == <<pc, args, ioc_fs, keywords, iocs, all_results, url_idx, page_num,
          results, out_file, log, origin, all_origin, save_calls>>

----------------------------------------------------------------------------
(* Bounds of the model *)

MaxUrls == 2
MaxPages == 2
MaxTextLen == 3
MaxKeywords == 2
MaxKwLen == 2
MaxIocLines == 1
MaxLineLen == 2

(* text_content[:500] *)
ContextLen == 500

----------------------------------------------------------------------------
(* Values *)

None == <<>>
Some(x) == <<x>>

Letters == {"a", "A"}
Space == " "

SeqsUpTo(S, n) == UNION {[1..k -> S] : k \in 0..n}

Digit == <<"1", "2", "3", "4", "5", "6", "7", "8", "9">>

(* str.lower() *)
LowerChar(c) == IF c = "A" THEN "a" ELSE c
Lower(s) == [i \in 1..Len(s) |-> LowerChar(s[i])]

(* sub in s *)
Contains(sub, s) ==
    \E i \in 0..(Len(s) - Len(sub)) : SubSeq(s, i + 1, i + Len(sub)) = sub

(* s[:n] *)
Take(s, n) == SubSeq(s, 1, IF Len(s) < n THEN Len(s) ELSE n)

(* str.strip() *)
RECURSIVE LStrip(_)
LStrip(s) == IF s # <<>> /\ Head(s) = Space THEN LStrip(Tail(s)) ELSE s
RECURSIVE RStrip(_)
RStrip(s) ==
    IF s # <<>> /\ s[Len(s)] = Space THEN RStrip(SubSeq(s, 1, Len(s) - 1)) ELSE s
Strip(s) == LStrip(RStrip(s))

----------------------------------------------------------------------------
(* read_iocs_from_file *)

StripNonBlank(lines) ==
    LET keep(line) == Strip(line) # <<>>
        kept == SelectSeq(lines, keep)
    IN  [i \in 1..Len(kept) |-> Strip(kept[i])]

read_iocs_from_file(fs) ==
    IF ~fs.exists THEN <<>>
    ELSE IF ~fs.readable THEN <<>>
    ELSE StripNonBlank(fs.lines)

----------------------------------------------------------------------------
(* scrape_url: the URL of a page, and the records of one page *)

HasQuery(url) == \E i \in 1..Len(url) : url[i] = "?"

(* mutant of PageUrl: the "?" test is lost *)
PageUrlAlwaysQuery(url, k) ==
    IF k > 1 THEN url \o <<"?", "page=", Digit[k]>> ELSE url

PageUrl(url, k) ==
    IF k > 1
    THEN IF HasQuery(url)
         THEN url \o <<"&", "page=", Digit[k]>>
         ELSE url \o <<"?", "page=", Digit[k]>>
    ELSE url

(* mutant of KeywordRecords: the text is not lower-cased *)
RECURSIVE KeywordRecordsCaseSensitive(_, _, _)
KeywordRecordsCaseSensitive(current_url, text_content, kws) ==
    IF kws = <<>> THEN <<>>
    ELSE LET keyword == Lower(Head(kws))
             hit == Contains(keyword, text_content)
             rec == [url |-> current_url, keyword |-> Some(keyword), ioc |-> None,
                     context |-> Take(text_content, ContextLen)]
         IN  (IF hit THEN <<rec>> ELSE <<>>)
                 \o KeywordRecordsCaseSensitive(current_url, text_content, Tail(kws))

RECURSIVE KeywordRecords(_, _, _)
KeywordRecords(current_url, text_content, kws) ==
    IF kws = <<>> THEN <<>>
    ELSE LET keyword == Lower(Head(kws))
             hit == Contains(keyword, Lower(text_content))
             rec == [url |-> current_url, keyword |-> Some(keyword), ioc |-> None,
                     context |-> Take(text_content, ContextLen)]
         IN  (IF hit THEN <<rec>> ELSE <<>>)
                 \o KeywordRecords(current_url, text_content, Tail(kws))

(* mutant of IocRecords: the containment test ignores case *)
RECURSIVE IocRecordsIgnoreCase(_, _, _)
IocRecordsIgnoreCase(current_url, text_content, is) ==
    IF is = <<>> THEN <<>>
    ELSE LET ioc == Head(is)
             hit == Contains(Lower(ioc), Lower(text_content))
             rec == [url |-> current_url, keyword |-> None, ioc |-> Some(ioc),
                     context |-> Take(text_content, ContextLen)]
         IN  (IF hit THEN <<rec>> ELSE <<>>)
                 \o IocRecordsIgnoreCase(current_url, text_content, Tail(is))

(* mutant of IocRecords: the IOC is also stored in the keyword field *)
RECURSIVE IocRecordsFillKeyword(_, _, _)
IocRecordsFillKeyword(current_url, text_content, is) ==
    IF is = <<>> THEN <<>>
    ELSE LET ioc == Head(is)
             hit == Contains(ioc, text_content)
             rec == [url |-> current_url, keyword |-> Some(ioc), ioc |-> Some(ioc),
                     context |-> Take(text_content, ContextLen)]
         IN  (IF hit THEN <<rec>> ELSE <<>>)
                 \o IocRecordsFillKeyword(current_url, text_content, Tail(is))

RECURSIVE IocRecords(_, _, _)
IocRecords(current_url, text_content, is) ==
    IF is = <<>> THEN <<>>
    ELSE LET ioc == Head(is)
             hit == Contains(ioc, text_content)
             rec == [url |-> current_url, keyword |-> None, ioc |-> Some(ioc),
                     context |-> Take(text_content, ContextLen)]
         IN  (IF hit THEN <<rec>> ELSE <<>>)
                 \o IocRecords(current_url, text_content, Tail(is))

OriginOf(t, page, kind, n) == [i \in 1..n |-> [t |-> t, page |-> page, kind |-> kind]]

----------------------------------------------------------------------------
(* save_results_to_csv: pandas takes the columns from the records' keys *)

Header == <<"url", "keyword", "ioc", "context">>

Columns(recs) == IF recs = <<>> THEN <<>> ELSE Header

Cell(opt) == IF opt = None THEN <<>> ELSE opt[1]

CsvRow(rec) == <<rec.url, Cell(rec.keyword), Cell(rec.ioc), rec.context>>

CsvLines(recs) == <<Columns(recs)>> \o [i \in 1..Len(recs) |-> CsvRow(recs[i])]

----------------------------------------------------------------------------
(* Inputs *)

BaseUrls == {<<"h">>, <<"h", "?", "i">>}

UrlLists == SeqsUpTo(BaseUrls, MaxUrls) \ {<<>>}

NoFile == [exists |-> FALSE, readable |-> FALSE, lines |-> <<>>]
Unreadable == [exists |-> TRUE, readable |-> FALSE, lines |-> <<>>]
FileOf(lines) == [exists |-> TRUE, readable |-> TRUE, lines |-> lines]

RunText == <<"A", "a">>
RunConfigs ==
    {<<Some(<< <<"a">> >>), TRUE, FileOf(<< <<"A">> >>)>>, <<None, TRUE, NoFile>>}

Texts == SeqsUpTo(Letters, MaxTextLen)

KeywordArgs ==
    {None} \cup {Some(l) : l \in SeqsUpTo(SeqsUpTo(Letters, MaxKwLen), MaxKeywords) \ {<<>>}}
KwConfigs ==
    {<<k, f[1], f[2]>> :
        k \in KeywordArgs,
        f \in {<<FALSE, NoFile>>, <<TRUE, FileOf(<< <<Space, "A", Space>> >>)>>}}

IocFiles ==
    {<<FALSE, NoFile>>, <<TRUE, NoFile>>, <<TRUE, Unreadable>>}
        \cup {<<TRUE, FileOf(l)>> :
                l \in SeqsUpTo(SeqsUpTo(Letters \cup {Space}, MaxLineLen), MaxIocLines)}
IocConfigs == {<<k, f[1], f[2]>> : k \in {None, Some(<< <<"a">> >>)}, f \in IocFiles}

InitWith(urlLists, pageCounts, configs) ==
    /\ pc = "main"
    /\ \E us \in urlLists, n \in pageCounts, c \in configs :
          /\ args = [keywords |-> c[1], ioc_file |-> c[2], urls |-> us, max_pages |-> n]
          /\ ioc_fs = c[3]
    /\ keywords = <<>>
    /\ iocs = <<>>
    /\ all_results = <<>>
    /\ url_idx = 0
    /\ page_num = 0
    /\ results = <<>>
    /\ out_file = None
    /\ log = <<>>
    /\ origin = <<>>
    /\ all_origin = <<>>
    /\ save_calls = 0

Init == InitWith(UrlLists, 0..MaxPages, RunConfigs)
KwInit == InitWith({<< <<"h">> >>}, {1}, KwConfigs)
IocInit == InitWith({<< <<"h">> >>}, {1}, IocConfigs)

----------------------------------------------------------------------------
(* Actions *)

(* main, up to the for loop *)
MainSetup ==
    /\ pc = "main"
    /\ keywords' = IF args.keywords # None THEN args.keywords[1] ELSE <<>>
    /\ iocs' = IF args.ioc_file THEN read_iocs_from_file(ioc_fs) ELSE <<>>
    /\ all_results' = <<>>
    /\ url_idx' = 1
    /\ pc' = "for_url"
    /\ UNCHANGED <<args, ioc_fs, page_num, results, out_file, log, origin,
                   all_origin, save_calls>>

(* main calls scrape_url(url, keywords, iocs, args.max_pages) *)
CallScrape ==
    /\ pc = "for_url"
    /\ url_idx <= Len(args.urls)
    /\ results' = <<>>
    /\ origin' = <<>>
    /\ page_num' = 1
    /\ pc' = "for_page"
    /\ UNCHANGED <<args, ioc_fs, keywords, iocs, all_results, url_idx, out_file,
                   log, all_origin, save_calls>>

LogEntry(outcome, text) ==
    [t |-> url_idx, page |-> page_num,
     url |-> PageUrl(args.urls[url_idx], page_num),
     outcome |-> outcome, text |-> text]

InPage == pc = "for_page" /\ page_num <= args.max_pages

(* mutant of FetchFails: break instead of continue *)
FetchFailsBreak ==
    /\ InPage
    /\ log' = Append(log, LogEntry("fetch_error", <<>>))
    /\ pc' = "except"
    /\ UNCHANGED <<args, ioc_fs, keywords, iocs, all_results, url_idx, page_num,
                   results, out_file, origin, all_origin, save_calls>>

(* mutant of FetchFails: no continue, the error page's body is matched *)
FetchFailsFallsThrough ==
    /\ InPage
    /\ LET current_url == PageUrl(args.urls[url_idx], page_num)
           krecs == KeywordRecords(current_url, RunText, keywords)
           irecs == IocRecords(current_url, RunText, iocs)
       IN  /\ results' = results \o krecs \o irecs
           /\ origin' = origin \o OriginOf(url_idx, page_num, "keyword", Len(krecs))
                               \o OriginOf(url_idx, page_num, "ioc", Len(irecs))
    /\ log' = Append(log, LogEntry("fetch_error", <<>>))
    /\ page_num' = page_num + 1
    /\ UNCHANGED <<pc, args, ioc_fs, keywords, iocs, all_results, url_idx, out_file,
                   all_origin, save_calls>>

(* requests.get or raise_for_status raises RequestException: continue *)
FetchFails ==
    /\ InPage
    /\ log' = Append(log, LogEntry("fetch_error", <<>>))
    /\ page_num' = page_num + 1
    /\ UNCHANGED <<pc, args, ioc_fs, keywords, iocs, all_results, url_idx, results,
                   out_file, origin, all_origin, save_calls>>

(* mutant of GeneralError: no outer except, the error ends main *)
GeneralErrorPropagates ==
    /\ InPage
    /\ log' = Append(log, LogEntry("general_error", <<>>))
    /\ pc' = "done"
    /\ UNCHANGED <<args, ioc_fs, keywords, iocs, all_results, url_idx, page_num,
                   results, out_file, origin, all_origin, save_calls>>

(* the fetch succeeds and the parser raises: the outer except ends the loop *)
GeneralError ==
    /\ InPage
    /\ log' = Append(log, LogEntry("general_error", <<>>))
    /\ pc' = "except"
    /\ UNCHANGED <<args, ioc_fs, keywords, iocs, all_results, url_idx, page_num,
                   results, out_file, origin, all_origin, save_calls>>

(* the fetch succeeds and the page's text is text_content *)
PageOk(text_content) ==
    /\ InPage
    /\ LET current_url == PageUrl(args.urls[url_idx], page_num)
           krecs == KeywordRecords(current_url, text_content, keywords)
           irecs == IocRecords(current_url, text_content, iocs)
       IN  /\ results' = results \o krecs \o irecs
           /\ origin' = origin \o OriginOf(url_idx, page_num, "keyword", Len(krecs))
                               \o OriginOf(url_idx, page_num, "ioc", Len(irecs))
    /\ log' = Append(log, LogEntry("ok", text_content))
    /\ page_num' = page_num + 1
    /\ UNCHANGED <<pc, args, ioc_fs, keywords, iocs, all_results, url_idx, out_file,
                   all_origin, save_calls>>

(* mutant of ScrapeReturn: the new records are put in front *)
ScrapeReturnPrepend ==
    /\ \/ pc = "for_page" /\ page_num > args.max_pages
       \/ pc = "except"
    /\ all_results' = results \o all_results
    /\ all_origin' = origin \o all_origin
    /\ results' = <<>>
    /\ origin' = <<>>
    /\ url_idx' = url_idx + 1
    /\ pc' = "for_url"
    /\ UNCHANGED <<args, ioc_fs, keywords, iocs, page_num, out_file, log, save_calls>>

(* mutant of ScrapeReturn: the results are written after every target *)
ScrapeReturnStreaming ==
    /\ \/ pc = "for_page" /\ page_num > args.max_pages
       \/ pc = "except"
    /\ all_results' = all_results \o results
    /\ all_origin' = all_origin \o origin
    /\ results' = <<>>
    /\ origin' = <<>>
    /\ url_idx' = url_idx + 1
    /\ pc' = "for_url"
    /\ out_file' = Some(CsvLines(all_results \o results))
    /\ save_calls' = save_calls + 1
    /\ UNCHANGED <<args, ioc_fs, keywords, iocs, page_num, log>>

(* scrape_url returns results; main extends all_results *)
ScrapeReturn ==
    /\ \/ pc = "for_page" /\ page_num > args.max_pages
       \/ pc = "except"
    /\ all_results' = all_results \o results
    /\ all_origin' = all_origin \o origin
    /\ results' = <<>>
    /\ origin' = <<>>
    /\ url_idx' = url_idx + 1
    /\ pc' = "for_url"
    /\ UNCHANGED <<args, ioc_fs, keywords, iocs, page_num, out_file, log, save_calls>>

AtSave == pc = "for_url" /\ url_idx > Len(args.urls)

(* save_results_to_csv writes the file *)
SaveOk ==
    /\ AtSave
    /\ out_file' = Some(CsvLines(all_results))
    /\ save_calls' = save_calls + 1
    /\ pc' = "done"
    /\ UNCHANGED <<args, ioc_fs, keywords, iocs, all_results, url_idx, page_num,
                   results, log, origin, all_origin>>

(* save_results_to_csv: to_csv raises, the error is logged *)
SaveFails ==
    /\ AtSave
    /\ save_calls' = save_calls + 1
    /\ pc' = "done"
    /\ UNCHANGED <<args, ioc_fs, keywords, iocs, all_results, url_idx, page_num,
                   results, out_file, log, origin, all_origin>>

Next ==
    \/ MainSetup
    \/ CallScrape
    \/ FetchFails
    \/ GeneralError
    \/ PageOk(RunText)
    \/ ScrapeReturn
    \/ SaveOk
    \/ SaveFails

MatchNext ==
    \/ MainSetup
    \/ CallScrape
    \/ FetchFails
    \/ GeneralError
    \/ \E text \in Texts : PageOk(text)
    \/ ScrapeReturn
    \/ SaveOk
    \/ SaveFails

Spec == Init /\ [][Next]_vars
FairSpec == Init /\ [][Next]_vars /\ WF_vars(Next)
KwSpec == KwInit /\ [][MatchNext]_vars
IocSpec == IocInit /\ [][MatchNext]_vars

----------------------------------------------------------------------------
(* Vocabulary of the properties *)

Recs == all_results \o results
Orig == all_origin \o origin

Returned(t) == pc # "main" /\ url_idx > t

AttemptsOf(t) == LET of_t(e) == e.t = t IN SelectSeq(log, of_t)

PageRecs(e) == {j \in DOMAIN Orig : Orig[j].t = e.t /\ Orig[j].page = e.page}

OkEntries == {i \in DOMAIN log : log[i].outcome = "ok"}

OkUrls == {log[i].url : i \in OkEntries}
FailedUrls == {log[i].url : i \in {k \in DOMAIN log : log[k].outcome = "fetch_error"}}

Occurrences(sub, s) ==
    Cardinality({i \in 0..(Len(s) - Len(sub)) : SubSeq(s, i + 1, i + Len(sub)) = sub})

(* the URL the specification gives for page k of a base URL *)
ClaimedUrl(base, k) ==
    IF k = 1 THEN base
    ELSE IF "?" \in {base[i] : i \in DOMAIN base}
         THEN base \o <<"&", "page=", Digit[k]>>
         ELSE base \o <<"?", "page=", Digit[k]>>

InOrder(a, base) ==
    \A k \in DOMAIN a : a[k].page = k /\ a[k].url = ClaimedUrl(base, k)

----------------------------------------------------------------------------
(* C1 as stated: once scrape_url has returned for a target and              *)
(* max_pages = N >= 1, the target has exactly N fetch attempts, pages 1..N  *)
(* in order, the k-th at the base URL (k = 1) or base + "&page=k" /         *)
(* base + "?page=k".                                                        *)
C1_ExactlyNAttempts ==
    \A t \in DOMAIN args.urls :
        Returned(t) /\ args.max_pages >= 1 =>
            LET a == AttemptsOf(t)
            IN  Len(a) = args.max_pages /\ InOrder(a, args.urls[t])

(* C1 amended: the attempts of a returned target are pages 1..m in order    *)
(* with the stated URLs, 1 <= m <= N, and m = N unless the processing of    *)
(* page m raised a non-fetch error.                                         *)
C1_AttemptsInOrder ==
    \A t \in DOMAIN args.urls :
        Returned(t) /\ args.max_pages >= 1 =>
            LET a == AttemptsOf(t)
            IN  /\ Len(a) \in 1..args.max_pages
                /\ InOrder(a, args.urls[t])
                /\ Len(a) = args.max_pages \/ a[Len(a)].outcome = "general_error"

C1_Witness ==
    /\ pc = "done"
    /\ args.max_pages = 2
    /\ args.urls = << <<"h">>, <<"h", "?", "i">> >>
    /\ Len(log) = 4
    /\ log[1].url = <<"h">>
    /\ log[2].url = <<"h", "?", "page=", "2">>
    /\ log[4].url = <<"h", "?", "i", "&", "page=", "2">>

(* C2: a failed fetch of page k < max_pages is followed by the fetch of     *)
(* page k+1 of the same target: it is the next attempt of the run, or the   *)
(* loop stands right before it.                                             *)
C2_FailureDoesNotAbort ==
    \A i \in DOMAIN log :
        log[i].outcome = "fetch_error" /\ log[i].page < args.max_pages =>
            IF i < Len(log)
            THEN log[i + 1].t = log[i].t /\ log[i + 1].page = log[i].page + 1
            ELSE pc = "for_page" /\ url_idx = log[i].t /\ page_num = log[i].page + 1

C2_Witness ==
    /\ Len(log) >= 4
    /\ log[1].outcome = "fetch_error" /\ log[2].t = 1 /\ log[2].page = 2
    /\ log[3].outcome = "ok"
    /\ log[3].t = 2 /\ log[3].page = 1
    /\ log[4].outcome = "fetch_error"

(* C3 as stated: every record's url was fetched successfully earlier in the *)
(* run, a failed fetch contributes no record, and no record carries the URL *)
(* of a failed fetch.                                                       *)
C3_NoRecordOfFailedUrl ==
    /\ \A j \in DOMAIN Recs : Recs[j].url \in OkUrls
    /\ \A i \in DOMAIN log : log[i].outcome # "ok" => PageRecs(log[i]) = {}
    /\ \A j \in DOMAIN Recs : Recs[j].url \notin FailedUrls

(* C3 amended: every record's url was fetched successfully earlier in the   *)
(* run, every record comes from a successful fetch attempt of its url, and  *)
(* a failed attempt contributes no record (another attempt of the same URL  *)
(* may have failed).                                                        *)
C3_RecordsFromSuccessfulFetch ==
    /\ \A j \in DOMAIN Recs : Recs[j].url \in OkUrls
    /\ \A i \in DOMAIN log : log[i].outcome # "ok" => PageRecs(log[i]) = {}
    /\ \A j \in DOMAIN Recs :
          \E i \in OkEntries :
              /\ log[i].t = Orig[j].t /\ log[i].page = Orig[j].page
              /\ log[i].url = Recs[j].url

C3_Witness ==
    /\ Recs # <<>>
    /\ \E i \in DOMAIN log : log[i].outcome = "fetch_error"
    /\ \E j \in DOMAIN Recs : Recs[j].url \in FailedUrls

(* C4 as stated: a fetched page whose text contains a keyword of the list   *)
(* in any letter case has exactly one record whose keyword field is that    *)
(* keyword and whose ioc is null.                                           *)
C4_OneRecordWithThatKeyword ==
    \A e \in OkEntries : \A i \in DOMAIN keywords :
        Contains(Lower(keywords[i]), Lower(log[e].text)) =>
            Cardinality({j \in PageRecs(log[e]) :
                           Recs[j].keyword = Some(keywords[i]) /\ Recs[j].ioc = None}) = 1

(* C4 amended: such a page has, for that keyword, records whose keyword     *)
(* field is the lower-cased keyword and whose ioc is null, exactly one per  *)
(* entry of the keyword list with that lower-case form, however often the   *)
(* keyword occurs in the text.                                              *)
C4_OneRecordPerListEntry ==
    \A e \in OkEntries : \A i \in DOMAIN keywords :
        Contains(Lower(keywords[i]), Lower(log[e].text)) =>
            Cardinality({j \in PageRecs(log[e]) :
                           /\ Recs[j].keyword = Some(Lower(keywords[i]))
                           /\ Recs[j].ioc = None})
              = Cardinality({k \in DOMAIN keywords :
                               Lower(keywords[k]) = Lower(keywords[i])})

C4_Witness ==
    \E e \in OkEntries :
        /\ keywords = << <<"A">>, <<"a">> >>
        /\ log[e].text = <<"a", "A", "a">>
        /\ Occurrences(<<"a">>, Lower(log[e].text)) = 3
        /\ Cardinality({j \in PageRecs(log[e]) : Recs[j].keyword = Some(<<"a">>)}) = 2

(* C5: for a fetched page, an IOC record of an IOC of the list exists if    *)
(* and only if the IOC is an exact-case substring of the page text.         *)
C5_IocCaseSensitive ==
    \A e \in OkEntries : \A i \in DOMAIN iocs :
        (\E j \in PageRecs(log[e]) : Recs[j].ioc = Some(iocs[i]))
            <=> (\E p \in 0..(Len(log[e].text) - Len(iocs[i])) :
                    \A q \in 1..Len(iocs[i]) : log[e].text[p + q] = iocs[i][q])

C5_Witness ==
    \E e \in OkEntries :
        /\ iocs = << <<"A", "a">> >>
        /\ log[e].text = <<"a", "a", "a">>
        /\ Recs = <<>>

(* C6: every record has exactly one of keyword and ioc populated.           *)
C6_ExactlyOneField ==
    \A j \in DOMAIN Recs : (Recs[j].keyword = None) # (Recs[j].ioc = None)

C6_Witness ==
    /\ \E j \in DOMAIN Recs : Recs[j].keyword # None
    /\ \E j \in DOMAIN Recs : Recs[j].ioc # None

(* C7: when the ResultSet is empty the written file still has the header    *)
(* row url,keyword,ioc,context.                                             *)
C7_HeaderWhenEmpty ==
    out_file # None /\ all_results = <<>> => out_file[1][1] = Header

(* C8: the ResultSet is in run order: by target, then by page, and within   *)
(* a page keyword records before IOC records.                               *)
C8_RunOrder ==
    /\ Len(all_origin) = Len(all_results)
    /\ \A j \in DOMAIN all_results :
          /\ all_results[j].url = ClaimedUrl(args.urls[all_origin[j].t], all_origin[j].page)
          /\ (all_origin[j].kind = "keyword") = (all_results[j].keyword # None)
    /\ \A i, j \in DOMAIN all_results :
          i < j =>
            \/ all_origin[i].t < all_origin[j].t
            \/ /\ all_origin[i].t = all_origin[j].t
               /\ all_origin[i].page < all_origin[j].page
            \/ /\ all_origin[i].t = all_origin[j].t
               /\ all_origin[i].page = all_origin[j].page
               /\ ~(all_origin[i].kind = "ioc" /\ all_origin[j].kind = "keyword")

C8_Witness ==
    /\ pc = "done"
    /\ Len(args.urls) = 2
    /\ Len(all_results) = 8
    /\ all_origin[1] = [t |-> 1, page |-> 1, kind |-> "keyword"]
    /\ all_origin[2] = [t |-> 1, page |-> 1, kind |-> "ioc"]
    /\ all_origin[3].page = 2
    /\ all_origin[5].t = 2

(* C9: the results are handed to the writer exactly once, at the end: never *)
(* more than one call, the call comes when every target has returned with   *)
(* its pagination run to the end (or ended by a non-fetch error), a missing *)
(* IOC file gives an empty IOC list, and every run reaches the call.        *)
PaginationEnded(t) ==
    LET a == AttemptsOf(t)
    IN  IF args.max_pages < 1 THEN a = <<>>
        ELSE /\ a # <<>>
             /\ Len(a) = args.max_pages \/ a[Len(a)].outcome = "general_error"

C9_WrittenOnceAtEnd ==
    /\ [](save_calls <= 1)
    /\ [](out_file # None => save_calls = 1)
    /\ [](save_calls = 1 =>
            /\ pc = "done"
            /\ results = <<>>
            /\ \A t \in DOMAIN args.urls : Returned(t) /\ PaginationEnded(t))
    /\ [](pc # "main" /\ args.ioc_file /\ ~ioc_fs.exists => iocs = <<>>)
    /\ <>(pc = "done" /\ save_calls = 1)

C9_Witness ==
    /\ pc = "done"
    /\ save_calls = 1
    /\ out_file # None
    /\ args.ioc_file /\ ~ioc_fs.exists
    /\ Len(args.urls) = 2
    /\ \E i \in DOMAIN log : log[i].outcome = "fetch_error"

(* C10: a non-fetch error at page k of a target ends that target's          *)
(* pagination (no later attempt of the target), scrape_url still returns    *)
(* the records of its earlier pages, and main goes on with the next target. *)
RecordsOfTarget(t) ==
    LET idx == {j \in DOMAIN all_results : all_origin[j].t = t}
        of_t(j) == j \in idx
        js == SelectSeq([j \in DOMAIN all_results |-> j], of_t)
    IN  [n \in DOMAIN js |-> all_results[js[n]]]

RECURSIVE MatchesOf(_)
MatchesOf(a) ==
    IF a = <<>> THEN <<>>
    ELSE (IF Head(a).outcome = "ok"
          THEN KeywordRecords(Head(a).url, Head(a).text, keywords)
                   \o IocRecords(Head(a).url, Head(a).text, iocs)
          ELSE <<>>) \o MatchesOf(Tail(a))

C10_GeneralErrorEndsTarget ==
    \A i \in DOMAIN log :
        log[i].outcome = "general_error" =>
            LET t == log[i].t
            IN  /\ \A j \in DOMAIN log : j > i => log[j].t > t
                /\ i < Len(log) => log[i + 1].t = t + 1 /\ log[i + 1].page = 1
                /\ i = Len(log) =>
                      \/ pc = "except" /\ url_idx = t
                      \/ pc \in {"for_url", "for_page"} /\ url_idx = t + 1
                      \/ pc = "done" /\ t = Len(args.urls) /\ save_calls = 1
                /\ Returned(t) => RecordsOfTarget(t) = MatchesOf(AttemptsOf(t))

C10_Witness ==
    /\ pc = "done"
    /\ args.max_pages = 2
    /\ Len(log) = 3
    /\ log[1].outcome = "ok"
    /\ log[2].t = 1 /\ log[2].outcome = "general_error"
    /\ log[3].t = 2 /\ log[3].page = 1 /\ log[3].outcome = "general_error"
    /\ Len(all_results) = 2


====
